---- MODULE Spec2Model ----
(***************************************************************************)
(* PyGuide: the centroid search (Centroid.py: centroid, basicCentroid) and *)
(* the star-shape fit (StarShape.py: starShape, _fitRadProfile).           *)
(*                                                                         *)
(* Representation of numbers.  Positions and radii that the callers give   *)
(* as floats are kept in HALVES (a name ending in 2 holds twice the        *)
(* value), so that 1.5 or 3.5 can be given; pixel values, asymmetries and  *)
(* counts are integers; a quotient is kept as the pair <<num, den>>.       *)
(* None is the empty sequence and a present value v is <<v>>.              *)
(***************************************************************************)
EXTENDS Integers, Sequences, FiniteSets, TLC

\* ------------------------------------------------------------------------
\* Constants of Centroid.py
\* ------------------------------------------------------------------------
_MinRad == 3

_OuterRadAdd == 10

_MaxIter == 40

\* Constants.MinThresh, in halves (the configured minimum of the threshold)
MinThresh2 == 3

\* ------------------------------------------------------------------------
\* Bounds of the model
\* ------------------------------------------------------------------------
\* the images are ImSize x ImSize
ImSize == 4

\* the two pixel values of the synthetic images
Dark == 0

Bright == 3

\* saturation level given in CCDInfo when one is given
SatLevel == 3

\* ------------------------------------------------------------------------
\* Small helpers
\* ------------------------------------------------------------------------
None == <<>>

Some(v) == <<v>>

SeqRange(q) == {q[n] : n \in 1 .. Len(q)}

Abs(x) == IF x < 0 THEN -x ELSE x

Max(a, b) == IF a >= b THEN a ELSE b

Min(a, b) == IF a <= b THEN a ELSE b

\* Python 2 round() of a non-negative or negative number given in halves:
\* halves are rounded away from zero
Round2(x2) == IF x2 >= 0 THEN (x2 + 1) \div 2 ELSE -((-x2 + 1) \div 2)

Pix == (0 .. ImSize - 1) \X (0 .. ImSize - 1)

\* ------------------------------------------------------------------------
\* ImUtil (not part of the sources: modelled from the specification)
\* ------------------------------------------------------------------------
\* A position (x, y) names the axes in the order opposite to an index
\* (i, j); positions are measured from the centre of pixel (0, 0), so the
\* fixed offset between position and index is zero.
\* ijPosFromXYPos, xyPosFromIJPos: a position as (i, j), and back
ijPosFromXYPos(xy) == <<xy[2], xy[1]>>

xyPosFromIJPos(ij) == <<ij[2], ij[1]>>

\* ijIndFromXYPos: the pixel index nearest a position (given in halves)
ijIndFromXYPos(g2) == <<Round2(g2[2]), Round2(g2[1])>>

\* Python 2 round() of the quotient q[1] / q[2], q[2] > 0: halves are
\* rounded away from zero
RoundQ(q) ==
    IF q[1] >= 0 THEN (2 * q[1] + q[2]) \div (2 * q[2])
    ELSE -((2 * (-q[1]) + q[2]) \div (2 * q[2]))

\* ijIndFromXYPos of a position whose coordinates are quotients
ijIndFromXYPosQ(xy) == <<RoundQ(xy[2]), RoundQ(xy[1])>>

\* subFrameCtr: the rows (or columns) of the image inside a window centred
\* on c2 (halves) reaching size2 (halves) to either side, clipped to the image
SubRange(c2, size2) == {i \in 0 .. ImSize - 1 : Abs(2 * i - c2) <= size2}

SubPix(g2, size2) == SubRange(g2[1], size2) \X SubRange(g2[2], size2)

\* skyStats: the median of the background pixels (the upper median of the
\* sorted values); it fails when there is no pixel to take it from
HasStats(vals, pts) == pts # {}

Median(vals, pts) ==
    CHOOSE v \in {vals[p] : p \in pts} :
        /\ 2 * Cardinality({p \in pts : vals[p] < v}) <= Cardinality(pts)
        /\ 2 * Cardinality({p \in pts : vals[p] <= v}) > Cardinality(pts)

\* skyStats: the standard deviation is an estimate of the spread of the
\* values: between 0 and their range, and 0 when they are all equal
StdDevs(vals, pts) ==
    LET vs == {vals[p] : p \in pts}
        hi == CHOOSE v \in vs : \A w \in vs : w <= v
        lo == CHOOSE v \in vs : \A w \in vs : w >= v
    IN  0 .. (hi - lo)

\* ------------------------------------------------------------------------
\* numarray.nd_image as centroid uses it
\* ------------------------------------------------------------------------
\* the index a 3x3 filter reads for index k of a line lo..hi (mode reflect)
Reflect(k, lo, hi) == IF k < lo THEN lo ELSE IF k > hi THEN hi ELSE k

SetMin(S) == CHOOSE v \in S : \A w \in S : v <= w

SetMax(S) == CHOOSE v \in S : \A w \in S : v >= w

\* the median of the 9 values a 3x3 window centred on p reads from arr,
\* whose rows are r[1]..r[2] and columns c[1]..c[2]
Med9(arr, p, r, c) ==
    LET D == (-1 .. 1) \X (-1 .. 1)
        w == [d \in D |-> arr[<<Reflect(p[1] + d[1], r[1], r[2]),
                                Reflect(p[2] + d[2], c[1], c[2])>>]]
    IN  CHOOSE v \in {w[d] : d \in D} :
            /\ Cardinality({d \in D : w[d] < v}) <= 4
            /\ Cardinality({d \in D : w[d] <= v}) >= 5

RowsOf(pts) == <<SetMin({q[1] : q \in pts}), SetMax({q[1] : q \in pts})>>

ColsOf(pts) == <<SetMin({q[2] : q \in pts}), SetMax({q[2] : q \in pts})>>

\* median_filter(input, 3) into a separate output array
MedianFilterCopy(arr, pts) ==
    LET r == RowsOf(pts)
        c == ColsOf(pts)
    IN  [p \in pts |-> Med9(arr, p, r, c)]

\* the pixels of the subframe in raster (row-major) order
RasterBefore(p, q) == p[1] < q[1] \/ (p[1] = q[1] /\ p[2] < q[2])

RECURSIVE MedianFilterRaster(_, _, _, _)
MedianFilterRaster(arr, todo, r, c) ==
    IF todo = {} THEN arr
    ELSE LET p == CHOOSE q \in todo : \A o \in todo : o = q \/ RasterBefore(q, o)
         IN  MedianFilterRaster([arr EXCEPT ![p] = Med9(arr, p, r, c)],
                                todo \ {p}, r, c)

\* median_filter(smoothedData, 3, output=smoothedData): input and output
\* are one array.  The filter either works from a copy of its input or
\* writes each pixel as it goes, in raster order, and then reads pixels it
\* has already written: both outcomes are kept.
MedianFilterOutcomes(arr, pts) ==
    {MedianFilterCopy(arr, pts),
     MedianFilterRaster(arr, pts, RowsOf(pts), ColsOf(pts))}

Adjacent8(p, q) == p # q /\ Abs(p[1] - q[1]) <= 1 /\ Abs(p[2] - q[2]) <= 1

\* label(input, ones((3,3))): the object a pixel of S belongs to, grown from
\* the pixel by adding 8-neighbours until none is left
RECURSIVE Grow(_, _)
Grow(acc, S) ==
    LET more == {q \in S \ acc : \E p \in acc : Adjacent8(p, q)}
    IN  IF more = {} THEN acc ELSE Grow(acc \cup more, S)

Label(S) == {Grow({p}, S) : p \in S}

\* find_objects: the slice of an object along axis ax; stop - start is its size
SliceSize(obj, ax) ==
    SetMax({p[ax] : p \in obj}) - SetMin({p[ax] : p \in obj}) + 1

\* ------------------------------------------------------------------------
\* centroid: the test for usable signal (Centroid.py 284-351)
\* ------------------------------------------------------------------------
\* makeCircle: True outside a circle of radius rad2/2 about the guess
CircleMask(p, g2, rad2) ==
    (2 * p[1] - g2[1]) * (2 * p[1] - g2[1])
        + (2 * p[2] - g2[2]) * (2 * p[2] - g2[2]) > rad2 * rad2

\* the unmasked pixels outside the circle: the background
BkgndPixels(sub, msk, g2, rad2) ==
    {p \in sub : p \notin msk /\ CircleMask(p, g2, rad2)}

\* thresh = max(Constants.MinThresh, float(thresh))
ClampThresh(t2) == Max(MinThresh2, t2)

\* dataCut = med + thresh * stdDev, doubled
DataCut2(med, t2, sd) == 2 * med + t2 * sd

\* dataPixels.filled(med): masked pixels and pixels outside the circle get med
Filled(dat, sub, msk, g2, rad2, med) ==
    [p \in sub |-> IF p \in msk \/ CircleMask(p, g2, rad2) THEN med ELSE dat[p]]

\* smoothedData > dataCut
AboveCut(sm, sub, cut2) == {p \in sub : 2 * sm[p] > cut2}

\* fault seeded for C8: any pixel above the cut counts as signal
HasSignalAny(sm, sub, cut2) == AboveCut(sm, sub, cut2) # {}

\* for ijSlice in slices: if 1 not in ijSize: break / else: no usable signal
HasSignal(sm, sub, cut2) ==
    \E obj \in Label(AboveCut(sm, sub, cut2)) :
        SliceSize(obj, 1) # 1 /\ SliceSize(obj, 2) # 1

\* ------------------------------------------------------------------------
\* radProf.radAsymmWeighted: the radial-asymmetry kernel (an extension
\* module).  A kernel k is a fixed function of the pixel, given relative to
\* the pixel of the initial guess; it answers [err, asymm, counts, pts].
\* ------------------------------------------------------------------------
\* half-width of the corridors of the serpentine kernel
SnakeW == 6

\* asymmetry of the first cell of the serpentine path
SnakeTop == 200

\* pixels the kernel counts in a profile
KernPts == 9

\* position along the serpentine path of the cell (di, dj); -1 off the path.
\* Even rows di >= 0 are corridors walked alternately right and left, an odd
\* row has one cell, joining the end of the corridor above to the one below.
SnakeIdx(di, dj) ==
    IF di < 0 \/ Abs(dj) > SnakeW THEN -1
    ELSE IF di % 2 = 0
         THEN LET k == di \div 2
              IN  k * (2 * SnakeW + 2)
                    + (IF k % 2 = 0 THEN dj + SnakeW ELSE SnakeW - dj)
         ELSE LET k == (di - 1) \div 2
              IN  IF dj = (IF k % 2 = 0 THEN SnakeW ELSE -SnakeW)
                  THEN k * (2 * SnakeW + 2) + 2 * SnakeW + 1
                  ELSE -1

KernelAsymm(k, di, dj) ==
    CASE k.kind = "table" ->
            IF Abs(di) <= 1 /\ Abs(dj) <= 1
            THEN (IF <<di, dj>> \in k.low THEN 0 ELSE 1)
            ELSE 2
      [] k.kind = "bowl" ->
            k.a * (2 * di - k.si) * (2 * di - k.si)
              + k.b * (2 * dj - k.sj) * (2 * dj - k.sj) + k.c
      [] k.kind = "snake" ->
            IF SnakeIdx(di, dj) < 0 THEN SnakeTop + 1
            ELSE SnakeTop - SnakeIdx(di, dj)

\* the kernel fails on the pixels right of column k.edge, when one is given
KernelErr(k, di, dj) == k.edge # None /\ dj > k.edge[1]

radAsymmWeighted(k, di, dj) ==
    [err |-> KernelErr(k, di, dj),
     asymm |-> KernelAsymm(k, di, dj),
     counts |-> 50 + 7 * di + dj,
     pts |-> KernPts]

\* ------------------------------------------------------------------------
\* CentroidData
\* ------------------------------------------------------------------------
CentroidData(isOK, msgStr, nSat, rad, imStats, xyCtr, xyErr, asymm, pix, counts) ==
    [isOK |-> isOK, msgStr |-> msgStr, nSat |-> nSat, rad2 |-> rad,
     imStats |-> imStats, xyCtr |-> xyCtr, xyErr |-> xyErr,
     asymm |-> asymm, pix |-> pix, counts |-> counts]

\* fault seeded for C10: "No signal" reports a count of saturated pixels
NoSignalDataSat(rad, imStats) ==
    CentroidData(FALSE, "No signal", Some(0), rad, imStats,
                 None, None, None, None, None)

\* centroid, lines 354-359
NoSignalData(rad, imStats) ==
    CentroidData(FALSE, "No signal", None, rad, imStats,
                 None, None, None, None, None)

\* fault seeded for C9: the message of the exception is dropped
FailedDataNoMsg(msg, rad, imStats) ==
    CentroidData(FALSE, "", None, rad, imStats,
                 None, None, None, None, None)

\* basicCentroid, lines 579-587: str(e) of the exception caught
FailedData(msg, rad, imStats) ==
    CentroidData(FALSE, msg, None, rad, imStats,
                 None, None, None, None, None)

\* the messages of the exceptions basicCentroid can catch
MsgIter == "could not find a star in %s iterations"

MsgWalked == "could not find star within %r pixels"

MsgKernel == "radAsymmWeighted failed"

MsgZeroDiv == "float division"

MsgDomain == "math domain error"

\* ------------------------------------------------------------------------
\* The 3x3 grids of basicCentroid
\* ------------------------------------------------------------------------
Grid == (0 .. 2) \X (0 .. 2)

GridSeq == <<  <<0, 0>>, <<0, 1>>, <<0, 2>>,
               <<1, 0>>, <<1, 1>>, <<1, 2>>,
               <<2, 0>>, <<2, 1>>, <<2, 2>>  >>

Zeros == [c \in Grid |-> 0]

\* fault seeded for C18: among equal minima a cell off the centre is taken
MinimumPositionOff(arr) ==
    LET m == SetMin({arr[c] : c \in Grid})
        k == CHOOSE n \in 1 .. 9 :
                /\ arr[GridSeq[n]] = m
                /\ \/ GridSeq[n] # <<1, 1>>
                   \/ \A o \in 1 .. 9 : o # n => arr[GridSeq[o]] # m
                /\ \A o \in 1 .. n - 1 :
                      arr[GridSeq[o]] = m => GridSeq[o] = <<1, 1>>
    IN  GridSeq[k]

\* num.nd_image.minimum_position: the first minimum in row-major order
MinimumPosition(arr) ==
    LET m == SetMin({arr[c] : c \in Grid})
        k == CHOOSE n \in 1 .. 9 :
                /\ arr[GridSeq[n]] = m
                /\ \A o \in 1 .. n - 1 : arr[GridSeq[o]] # m
    IN  GridSeq[k]

\* fault seeded for C16: the grid is shifted the other way
ShiftBack(arr, ii, jj) ==
    [c \in Grid |->
        IF <<c[1] - ii, c[2] - jj>> \in Grid
        THEN arr[<<c[1] - ii, c[2] - jj>>] ELSE 0]

\* num.nd_image.shift(arr, (-ii, -jj)): cell c takes the value of the cell
\* at c + (ii, jj); cells shifted in from outside the grid are 0
Shift(arr, ii, jj) ==
    [c \in Grid |->
        IF <<c[1] + ii, c[2] + jj>> \in Grid
        THEN arr[<<c[1] + ii, c[2] + jj>>] ELSE 0]

\* fault seeded for C4: a best pixel on the circle itself goes on
WalkedOffStrict(mi, mj, g, rad) ==
    (mi - g[1]) * (mi - g[1]) + (mj - g[2]) * (mj - g[2]) > rad * rad

\* line 487: the walk has left the circle of the search
WalkedOff(mi, mj, g, rad) ==
    (mi - g[1]) * (mi - g[1]) + (mj - g[2]) * (mj - g[2]) >= rad * rad

\* fault seeded for C5: the count of the iterations is never tested
TooManyIterNever(n) == FALSE

\* line 450
TooManyIter(n) == n > _MaxIter

\* int() of the quotient q: towards zero
IntOf(q) ==
    IF q[1] >= 0 THEN q[1] \div q[2] ELSE -((-q[1]) \div q[2])

\* lines 537-564: the unmasked pixels >= satLevel within rad of the centroid
\* ctr = <<ci, cj>>, two quotients; the subframe reaches rad + 1 to either
\* side of the truncated centroid
CountSat(dat, msk, ctr, rad, sat) ==
    LET ci == ctr[1]
        cj == ctr[2]
        sub == SubPix(<<2 * IntOf(ci), 2 * IntOf(cj)>>, 2 * (rad + 1))
        outside(p) ==
            (p[1] * ci[2] - ci[1]) * (p[1] * ci[2] - ci[1]) * cj[2] * cj[2]
              + (p[2] * cj[2] - cj[1]) * (p[2] * cj[2] - cj[1]) * ci[2] * ci[2]
            > rad * rad * ci[2] * ci[2] * cj[2] * cj[2]
    IN  Cardinality({p \in sub :
            dat[p] >= sat /\ ~(outside(p) \/ p \in msk)})

\* ------------------------------------------------------------------------
\* State
\* ------------------------------------------------------------------------
VARIABLES
    arg,          \* the arguments of the call: entry, data, mask, guessLen,
                  \* xyGuess2, rad2, thresh2, satLevel
    kern,         \* what radProf.radAsymmWeighted answers for this image
    pc,           \* "centroid", "basic", "walk", "refine", "done", "raised"
    rad2,         \* the local rad, in halves
    imStats,      \* None or <<ImStats>>
    smoothed,     \* None or <<smoothedData>> of centroid
    ijIndGuess,   \* basicCentroid: the rounded guess
    maxi, maxj,   \* the current best pixel
    niter,
    asymmArr, totPtsArr, totCountsArr,
    calls,        \* the pixels radAsymmWeighted was called for, in order
    centers,      \* the pixels a 3x3 grid was evaluated around, in order
    result,       \* None or <<CentroidData>>: what the call returned
    exc,          \* None or <<the exception the call raised>>
    prev          \* None, or in a second call of basicCentroid, made with
                  \* the centre the first returned as its guess: <<the
                  \* rounded guess, best pixel and iterations of the first>>

cvars == <<arg, kern, pc, rad2, imStats, smoothed, ijIndGuess, maxi, maxj,
           niter, asymmArr, totPtsArr, totCountsArr, calls, centers, result, exc,
           prev>>

walkVars == <<ijIndGuess, maxi, maxj, niter, asymmArr, totPtsArr,
              totCountsArr, calls, centers>>

\* starShape
VARIABLES
    sarg,          \* starShape's arguments: xyCtr2, rad2, predFWHM4
    prof,          \* the radial profile RP.radProf answers, as its chi-square
    spc,           \* "starShape", "fit", "final", "done", "raised", "idle"
    wpInd, direc, iterNum,
    chiSqByWPInd,
    evald,         \* the table indices _fitIter was called for, in order
    sresult,       \* None or <<StarShapeData>>: what starShape returned
    sexc           \* None or <<type, message>> of the exception it raised

svars == <<sarg, prof, spc, wpInd, direc, iterNum, chiSqByWPInd, evald,
           sresult, sexc>>

vars == <<cvars, svars>>

\* no call of starShape is under way
ShapeIdle ==
    /\ sarg = None
    /\ prof = None
    /\ spc = "idle"
    /\ wpInd = 0
    /\ direc = 1
    /\ iterNum = 0
    /\ chiSqByWPInd = <<>>
    /\ evald = <<>>
    /\ sresult = None
    /\ sexc = None

\* ------------------------------------------------------------------------
\* The calls that are made
\* ------------------------------------------------------------------------
\* largest offset (in halves) of a star near the guess, and of one far away
StarMax == 2

FarStar == 8

HotImage(hot) == [p \in Pix |-> IF p \in hot THEN Bright ELSE Dark]

Rects ==
    {{p \in Pix : r0 <= p[1] /\ p[1] <= r1 /\ c0 <= p[2] /\ p[2] <= c1} :
        r0 \in 0 .. ImSize - 1, r1 \in 0 .. ImSize - 1,
        c0 \in 0 .. ImSize - 1, c1 \in 0 .. ImSize - 1}

\* the images given to centroid: a bright rectangle (or none) and possibly
\* one more bright pixel on the diagonal
GateImages ==
    {HotImage(r \cup e) :
        r \in Rects \cup {{}},
        e \in {{}} \cup {{<<k, k>>} : k \in 0 .. ImSize - 1}}

Kern(kind, low, si, sj, a, b, c, edge) ==
    [kind |-> kind, low |-> low, si |-> si, sj |-> sj,
     a |-> a, b |-> b, c |-> c, edge |-> edge]

\* a star exactly on the pixel of the guess
StarKernel == Kern("bowl", {}, 0, 0, 1, 1, 0, None)

TableKernels ==
    {Kern("table", low, 0, 0, 0, 0, 0, None) :
        low \in SUBSET ((-1 .. 1) \X (-1 .. 1))}

StarSet == (-StarMax .. StarMax) \cup {-FarStar, FarStar}

BowlShapes == {<<1, 1, 0>>, <<1, 1, -1>>, <<1, 0, 0>>, <<0, 1, 0>>,
               <<0, 0, 0>>, <<2, 1, 3>>}

BowlKernels ==
    {Kern("bowl", {}, si, sj, sh[1], sh[2], sh[3], None) :
        si \in StarSet, sj \in StarSet, sh \in BowlShapes}

\* kernels that fail right of the column of the guess, or one further
EdgeKernels ==
    {Kern("bowl", {}, si, sj, 1, 1, 0, Some(e)) :
        si \in -StarMax .. StarMax, sj \in -StarMax .. StarMax, e \in 0 .. 1}

SnakeKernel == Kern("snake", {}, 0, 0, 0, 0, 0, None)

Arg(entry, data, mask, guessLen, xyGuess2, r2, thresh2, satLevel) ==
    [entry |-> entry, data |-> data, mask |-> mask, guessLen |-> guessLen,
     xyGuess2 |-> xyGuess2, rad2 |-> r2, thresh2 |-> thresh2,
     satLevel |-> satLevel]

\* centroid(data, mask, xyGuess, rad, ccdInfo, thresh): guess, radius,
\* threshold (halves), mask, saturation level and kernel of each scene
GateScenes ==
    { <<<<2, 2>>, 2, 6, {}, None, StarKernel>>,
      <<<<2, 2>>, 4, 2, {}, Some(SatLevel), StarKernel>>,
      <<<<0, 0>>, 6, 6, {<<1, 1>>}, None, Kern("bowl", {}, 1, 0, 1, 1, 0, None)>>,
      <<<<3, 3>>, 5, 6, {}, None, Kern("bowl", {}, 0, 0, 1, 1, 0, Some(0))>>,
      <<<<2, 2>>, 4, 6, Pix, None, StarKernel>>,
      <<<<2, 2>>, 7, 6, {}, None, StarKernel>> }

GateCalls ==
    {[arg |-> Arg("centroid", im, sc[4], 2, sc[1], sc[2], sc[3], sc[5]),
      kern |-> sc[6]] : im \in GateImages, sc \in GateScenes}

\* basicCentroid(data, mask, xyGuess, rad, ccdInfo): guess, radius (halves)
\* and saturation level of each scene
WalkScenes ==
    { <<<<2, 2>>, 2, None>>,
      <<<<3, 1>>, 7, Some(SatLevel)>>,
      <<<<2, 2>>, 6, Some(SatLevel)>>,
      <<<<2, 2>>, 12, None>> }

WalkImage == HotImage({<<1, 1>>, <<1, 2>>, <<3, 3>>})

WalkCalls ==
    {[arg |-> Arg("basicCentroid", WalkImage, {<<1, 2>>}, 2, sc[1], sc[2], 6, sc[3]),
      kern |-> k] :
        sc \in WalkScenes,
        k \in TableKernels \cup BowlKernels \cup EdgeKernels}

\* a search of radius 9 on the serpentine image
SnakeCalls ==
    {[arg |-> Arg("basicCentroid", WalkImage, {}, 2, <<2, 2>>, 18, 6, None),
      kern |-> SnakeKernel]}

\* an initial guess of 1 or of 3 elements
BadGuessCalls ==
    {[arg |-> Arg("basicCentroid", WalkImage, {}, n, <<2, 2>>, 6, 6, None),
      kern |-> StarKernel] : n \in {1, 3}}

Calls == GateCalls \cup WalkCalls \cup SnakeCalls \cup BadGuessCalls

Init ==
    /\ \E c \in Calls : arg = c.arg /\ kern = c.kern
    /\ pc = IF arg.entry = "centroid" THEN "centroid" ELSE "basic"
    /\ rad2 = arg.rad2
    /\ imStats = None
    /\ smoothed = None
    /\ ijIndGuess = <<0, 0>>
    /\ maxi = 0
    /\ maxj = 0
    /\ niter = 0
    /\ asymmArr = Zeros
    /\ totPtsArr = Zeros
    /\ totCountsArr = Zeros
    /\ calls = <<>>
    /\ centers = <<>>
    /\ result = None
    /\ exc = None
    /\ prev = None
    /\ ShapeIdle

\* ------------------------------------------------------------------------
\* centroid (Centroid.py 245-370), up to its call of basicCentroid
\* ------------------------------------------------------------------------
ImStats(rad, outerRad, thresh, med, stdDev, dataCut) ==
    [rad2 |-> rad, outerRad2 |-> outerRad, thresh2 |-> thresh,
     med |-> med, stdDev |-> stdDev, dataCut2 |-> dataCut]

Centroid ==
    /\ pc = "centroid"
    /\ LET g2 == ijPosFromXYPos(arg.xyGuess2)
           outerRad2 == rad2 + 2 * _OuterRadAdd
           sub == SubPix(g2, outerRad2)
           bk == BkgndPixels(sub, arg.mask, g2, rad2)
           t2 == ClampThresh(arg.thresh2)
       IN  IF ~HasStats(arg.data, bk)
           THEN \* ImUtil.skyStats fails: nothing catches it
                /\ pc' = "raised"
                /\ exc' = Some("skyStats")
                /\ UNCHANGED <<imStats, smoothed, result>>
           ELSE LET med == Median(arg.data, bk)
                    sms == MedianFilterOutcomes(
                               Filled(arg.data, sub, arg.mask, g2, rad2, med), sub)
                IN  \E sd \in StdDevs(arg.data, bk), sm \in sms :
                    LET cut2 == DataCut2(med, t2, sd)
                        st == ImStats(rad2, outerRad2, t2, med, sd, cut2)
                    IN  /\ imStats' = Some(st)
                        /\ smoothed' = Some(sm)
                        /\ exc' = exc
                        /\ IF HasSignal(sm, sub, cut2)
                           THEN pc' = "basic" /\ result' = result
                           ELSE /\ pc' = "done"
                                /\ result' = Some(NoSignalData(rad2, Some(st)))
    /\ UNCHANGED <<prev, arg, kern, rad2>>
    /\ UNCHANGED walkVars
    /\ UNCHANGED svars

\* ------------------------------------------------------------------------
\* basicCentroid (Centroid.py 373-587)
\* ------------------------------------------------------------------------
\* line 415: rad = int(round(max(rad, _MinRad)))
ClampRad(r2) == Round2(Max(r2, 2 * _MinRad))

\* lines 401-447: the arguments are checked and the walk is set up
BasicCentroid ==
    /\ pc = "basic"
    /\ IF arg.guessLen # 2
       THEN /\ pc' = "raised"
            /\ exc' = Some("ValueError")
            /\ UNCHANGED <<rad2, ijIndGuess, maxi, maxj>>
       ELSE /\ pc' = "walk"
            /\ exc' = exc
            /\ ijIndGuess' = ijIndFromXYPos(arg.xyGuess2)
            /\ rad2' = 2 * ClampRad(rad2)
            /\ maxi' = ijIndFromXYPos(arg.xyGuess2)[1]
            /\ maxj' = ijIndFromXYPos(arg.xyGuess2)[2]
    /\ niter' = 0
    /\ asymmArr' = Zeros
    /\ totPtsArr' = Zeros
    /\ totCountsArr' = Zeros
    /\ UNCHANGED <<prev, arg, kern, imStats, smoothed, calls, centers, result>>
    /\ UNCHANGED svars

\* lines 453-460: the cells of the grid that are computed, in order
ToDo(pts) == SelectSeq(GridSeq, LAMBDA c : pts[c] = 0)

\* the pixel the kernel is given relative to: the rounded guess of the
\* first call on the image
KernOrigin == IF prev = None THEN ijIndGuess ELSE prev[1].ijIndGuess

KernelAt(c, mi, mj) ==
    radAsymmWeighted(kern, mi + c[1] - 1 - KernOrigin[1],
                           mj + c[2] - 1 - KernOrigin[2])

\* lines 448-496: one iteration of the walk; what it raises is caught at
\* line 579 and returned as a CentroidData
WalkIter ==
    /\ pc = "walk"
    /\ niter' = niter + 1
    /\ IF TooManyIter(niter + 1)
       THEN /\ pc' = "done"
            /\ result' = Some(FailedData(MsgIter, rad2, imStats))
            /\ UNCHANGED <<maxi, maxj, asymmArr, totPtsArr, totCountsArr,
                           calls, centers>>
       ELSE \E todo \in {ToDo(totPtsArr)} :
            \* kv: what the kernel answers at the cells to compute
            \E kv \in {[c \in SeqRange(todo) |-> KernelAt(c, maxi, maxj)]} :
            LET bad == {n \in 1 .. Len(todo) : kv[todo[n]].err}
                last == IF bad = {} THEN Len(todo) ELSE SetMin(bad)
                called == {todo[n] : n \in 1 .. last}
                fill(arr, f) ==
                    [c \in Grid |-> IF c \in called THEN kv[c][f] ELSE arr[c]]
                asymm1 == fill(asymmArr, "asymm")
                pts1 == fill(totPtsArr, "pts")
                counts1 == fill(totCountsArr, "counts")
                mp == MinimumPosition(asymm1)
                ii == mp[1] - 1
                jj == mp[2] - 1
            \* w: the grid as filled and its minimum, computed once
            IN  \E w \in {[err |-> bad # {}, last |-> last, ii |-> ii, jj |-> jj,
                           asymm |-> asymm1, pts |-> pts1, counts |-> counts1]} :
                /\ calls' = calls \o [n \in 1 .. w.last |->
                                <<maxi + todo[n][1] - 1, maxj + todo[n][2] - 1>>]
                /\ centers' = Append(centers, <<maxi, maxj>>)
                /\ IF w.err
                   THEN /\ pc' = "done"
                        /\ result' = Some(FailedData(MsgKernel, rad2, imStats))
                        /\ UNCHANGED <<maxi, maxj, asymmArr, totPtsArr, totCountsArr>>
                   ELSE IF w.ii # 0 \/ w.jj # 0
                   THEN /\ maxi' = maxi + w.ii
                        /\ maxj' = maxj + w.jj
                        /\ IF WalkedOff(maxi + w.ii, maxj + w.jj, ijIndGuess, rad2 \div 2)
                           THEN /\ pc' = "done"
                                /\ result' = Some(FailedData(MsgWalked, rad2, imStats))
                                /\ asymmArr' = w.asymm
                                /\ totPtsArr' = w.pts
                                /\ totCountsArr' = w.counts
                           ELSE /\ pc' = "walk"
                                /\ result' = result
                                /\ asymmArr' = Shift(w.asymm, w.ii, w.jj)
                                /\ totPtsArr' = Shift(w.pts, w.ii, w.jj)
                                /\ totCountsArr' = Shift(w.counts, w.ii, w.jj)
                   ELSE /\ pc' = "refine"
                        /\ result' = result
                        /\ asymmArr' = w.asymm
                        /\ totPtsArr' = w.pts
                        /\ totCountsArr' = w.counts
                        /\ UNCHANGED <<maxi, maxj>>
    /\ UNCHANGED <<prev, arg, kern, rad2, imStats, smoothed, ijIndGuess, exc>>
    /\ UNCHANGED svars

\* lines 508-511, doubled: 2*ai, 2*bi, 2*aj, 2*bj
Curv2(y0, y1, y2) == y2 - 2 * y1 + y0

\* fault seeded for C17: the slope b not halved
SlopeWhole(y0, y2) == 2 * (y2 - y0)

Slope2(y0, y2) == y2 - y0

\* lines 498-576: the parabolic fit, the error estimate, the saturated
\* pixels and the CentroidData returned
Refine ==
    /\ pc = "refine"
    /\ LET ai2 == Curv2(asymmArr[<<0, 1>>], asymmArr[<<1, 1>>], asymmArr[<<2, 1>>])
           bi2 == Slope2(asymmArr[<<0, 1>>], asymmArr[<<2, 1>>])
           aj2 == Curv2(asymmArr[<<1, 0>>], asymmArr[<<1, 1>>], asymmArr[<<1, 2>>])
           bj2 == Slope2(asymmArr[<<1, 0>>], asymmArr[<<1, 2>>])
           \* maxi + di and maxj + dj, with di = -0.5*bi/ai
           ci == <<maxi * 2 * ai2 - bi2, 2 * ai2>>
           cj == <<maxj * 2 * aj2 - bj2, 2 * aj2>>
           \* the squares of iErr and jErr: radAsymmSigma / a
           iErrSq == <<2 * asymmArr[<<1, 1>>], ai2>>
           jErrSq == <<2 * asymmArr[<<1, 1>>], aj2>>
           rad == rad2 \div 2
           nSat == IF arg.satLevel = None THEN None
                   ELSE Some(CountSat(arg.data, arg.mask, <<ci, cj>>, rad,
                                      arg.satLevel[1]))
       IN  result' = Some(
             IF ai2 = 0 \/ aj2 = 0
             THEN FailedData(MsgZeroDiv, rad2, imStats)
             ELSE IF iErrSq[1] * iErrSq[2] < 0 \/ jErrSq[1] * jErrSq[2] < 0
             THEN FailedData(MsgDomain, rad2, imStats)
             ELSE CentroidData(TRUE, "", nSat, rad2, imStats,
                               Some(xyPosFromIJPos(<<ci, cj>>)), Some(<<jErrSq, iErrSq>>),
                               Some(asymmArr[<<1, 1>>]), Some(totPtsArr[<<1, 1>>]),
                               Some(totCountsArr[<<1, 1>>])))
    /\ pc' = "done"
    /\ UNCHANGED <<prev, arg, kern, rad2, imStats, smoothed, exc>>
    /\ UNCHANGED walkVars
    /\ UNCHANGED svars

\* basicCentroid called again on the same image, with the centre the
\* first call returned as xyGuess: lines 401-447 of the second call
CallAgain ==
    /\ pc = "done"
    /\ arg.entry = "basicCentroid"
    /\ prev = None
    /\ result # None
    /\ result[1].isOK
    /\ prev' = Some([ijIndGuess |-> ijIndGuess, best |-> <<maxi, maxj>>,
                     niter |-> niter, xyCtr |-> result[1].xyCtr[1]])
    /\ ijIndGuess' = ijIndFromXYPosQ(result[1].xyCtr[1])
    /\ maxi' = ijIndFromXYPosQ(result[1].xyCtr[1])[1]
    /\ maxj' = ijIndFromXYPosQ(result[1].xyCtr[1])[2]
    /\ rad2' = 2 * ClampRad(rad2)
    /\ niter' = 0
    /\ asymmArr' = Zeros
    /\ totPtsArr' = Zeros
    /\ totCountsArr' = Zeros
    /\ calls' = <<>>
    /\ centers' = <<>>
    /\ result' = None
    /\ pc' = "walk"
    /\ UNCHANGED <<arg, kern, imStats, smoothed, exc>>
    /\ UNCHANGED svars

Next == Centroid \/ BasicCentroid \/ WalkIter \/ Refine \/ CallAgain

Spec == Init /\ [][Next]_vars

\* ------------------------------------------------------------------------
\* StarShape.py.  FWHM is kept in quarters of a pixel (a name ending in 4
\* holds four times the value): _FWHMDelta is one quarter.
\* ------------------------------------------------------------------------
_FWHMMin == 1

_FWHMMax == 30

\* 1 / _FWHMDelta
InvFWHMDelta == 4

\* Constants.FWHMPerSigma squared (8 ln 2), in thousandths
FWHMPerSigmaSq1000 == 5545

\* _fwhmFromWPInd, for an index given as the quotient q
_fwhmFromWPInd4(q) == <<_FWHMMax * InvFWHMDelta * q[2] - q[1], q[2]>>

\* _wpIndFromFWHM, for a FWHM given in quarters
_wpIndFromFWHM(f4) == _FWHMMax * InvFWHMDelta - f4

\* _makeWPArr: len(_WPArr) = int(((_FWHMMax - _FWHMMin) / _FWHMDelta) + 0.5)
ncell == (2 * (_FWHMMax - _FWHMMin) * InvFWHMDelta + 1) \div 2

\* _makeWPArr: the table, each entry wp = (FWHMPerSigma / fwhm)**2 given by
\* its FWHM in quarters
_makeWPArr == [k \in 0 .. ncell - 1 |-> _fwhmFromWPInd4(<<k, 1>>)[1]]

\* lines 234-236: int(_wpIndFromFWHM(predFWHM) + 0.5), kept off the edges;
\* int() truncates towards zero
StartWPInd(f4) ==
    LET n == _wpIndFromFWHM(f4)
        k == IF n >= 0 THEN n ELSE n + 1
    IN  Min(Max(1, k), ncell - 2)

\* line 299
InTable(k) == 0 <= k /\ k < ncell

\* the chi-square of the fit of the radial profile p at table index k, and
\* whether the determinant of the least-squares fit vanishes there
ChiSq(p, k) ==
    CASE p.kind = "vee" -> p.c * Abs(k - p.m)
      [] p.kind = "step" -> IF k < p.m THEN p.c ELSE 0
      [] p.kind = "down" -> ncell - k
      [] p.kind = "up" -> k
      [] p.kind = "any" -> p.at[k]

\* _fitIter at table index k: ArithmeticError becomes RuntimeError
MsgShape == "Could not compute shape: %s"

MsgEdge == "wpInd has walked off the edge; wpInd=%s, iterNum=%s"

\* fault seeded for C2: a vanishing determinant goes unnoticed
_fitIterQuiet(p, k) ==
    [err |-> FALSE, msg |-> MsgShape, chiSq |-> ChiSq(p, k)]

\* lines 331-362: the fit at table index k; lines 348-356 turn an
\* ArithmeticError into a RuntimeError
_fitIter(p, k) ==
    [err |-> p.errAt = Some(k), msg |-> MsgShape, chiSq |-> ChiSq(p, k)]

StarShapeData(ampl, fwhm, bkgnd, chiSq) ==
    [ampl |-> ampl, fwhm |-> fwhm, bkgnd |-> bkgnd, chiSq |-> chiSq]

\* the table indices the minima and edges of the profiles are put at
ProfMids == {0, 1, 2, 60, 107, 108, 109, 113, 114, 115}

\* largest chi-square of a profile of kind "any" at the indices where it is
\* arbitrary, and the number of those indices
AnyMax == 2

AnyLen == 5

\* a profile of kind "any" is a chi-square function that is arbitrary, with
\* values in 0 .. c, at the first AnyLen indices looked at and c + 1
\* everywhere else: field at holds its values at the indices looked at
Profile(kind, m, c, errAt) ==
    [kind |-> kind, m |-> m, c |-> c, errAt |-> errAt, at |-> <<>>]

Profiles ==
    {Profile(kind, m, c, None) :
        kind \in {"vee", "step"}, m \in ProfMids, c \in 0 .. 2}
    \cup {Profile(kind, 0, 0, e) :
        kind \in {"down", "up"}, e \in {None, Some(0), Some(60), Some(109)}}
    \cup {Profile("any", 0, AnyMax, None)}

\* the profile p with its chi-square at index k decided: one profile for
\* each value an arbitrary function can have there
Reveal(p, k) ==
    IF p.kind = "any" /\ k \notin DOMAIN p.at
    THEN {[p EXCEPT !.at = [j \in DOMAIN p.at \cup {k} |->
                               IF j = k THEN v ELSE p.at[j]]] :
            v \in IF Cardinality(DOMAIN p.at) < AnyLen
                  THEN 0 .. p.c ELSE {p.c + 1}}
    ELSE {p}

\* predicted FWHM: None, 0.5, 2, 3.25, 15, 29.5, 30 and 35 pixels
PredFWHMs == {None, Some(2), Some(8), Some(13), Some(60), Some(118),
              Some(120), Some(140)}

ShapeArgs ==
    {[xyCtr2 |-> c, rad2 |-> r, predFWHM4 |-> f] :
        c \in {<<2, 2>>, <<3, 2>>, <<3, 3>>}, r \in {2, 7}, f \in PredFWHMs}

ShapeInit ==
    /\ sarg \in ShapeArgs
    /\ prof \in Profiles
    /\ prof.kind = "any" => sarg.xyCtr2 = <<3, 2>> /\ sarg.rad2 = 7
    /\ spc = "starShape"
    /\ wpInd = 0
    /\ direc = 1
    /\ iterNum = 0
    /\ chiSqByWPInd = [k \in 0 .. ncell - 1 |-> 0]
    /\ evald = <<>>
    /\ sresult = None
    /\ sexc = None

\* starShape lines 147-181 and _fitRadProfile lines 223-259
StarShape ==
    /\ spc = "starShape"
    /\ LET rad == ClampRad(sarg.rad2)
           predFWHM4 == IF sarg.predFWHM4 = None THEN InvFWHMDelta * rad
                        ELSE sarg.predFWHM4[1]
       IN  wpInd' = StartWPInd(predFWHM4)
    /\ direc' = 1
    /\ iterNum' = 0
    /\ chiSqByWPInd' = [k \in 0 .. ncell - 1 |-> 0]
    /\ spc' = "fit"
    /\ UNCHANGED <<sarg, prof, evald, sresult, sexc>>
    /\ UNCHANGED cvars

\* _fitRadProfile lines 261-301: one iteration of the width walk; nothing
\* in starShape catches what it raises
\* fault seeded for C15: a chi-square equal to the one before counts as up
WentUpOrLevel(chi, k, d) == chi[k] >= chi[k - d]

\* lines 278 and 288: chi-square went up from the index before
WentUp(chi, k, d) == chi[k] > chi[k - d]

\* fault seeded for C14: turning round, the walk backs up one index only
NextWPIndBackOne(it, wrong, k, d) ==
    IF it = 0 THEN k + d
    ELSE IF wrong THEN k - d ELSE k + d

\* lines 275-296: the index the walk goes to from k
NextWPInd(it, wrong, k, d) ==
    IF it = 0 THEN k + d
    ELSE IF it = 1
         THEN (IF wrong THEN k - 2 * d ELSE k + d)
         ELSE (IF wrong THEN k - d ELSE k + d)

FitStep ==
    /\ spc = "fit"
    /\ \E p \in Reveal(prof, wpInd) :
       LET fit == _fitIter(p, wpInd)
           chi == [chiSqByWPInd EXCEPT ![wpInd] = fit.chiSq]
           wrong == iterNum > 0 /\ WentUp(chi, wpInd, direc)
           next == NextWPInd(iterNum, wrong, wpInd, direc)
       IN  /\ prof' = p
           /\ evald' = Append(evald, wpInd)
           /\ IF fit.err
              THEN /\ spc' = "raised"
                   /\ sexc' = Some(<<"RuntimeError", fit.msg>>)
                   /\ UNCHANGED <<wpInd, direc, iterNum, chiSqByWPInd>>
              ELSE /\ chiSqByWPInd' = chi
                   /\ wpInd' = next
                   /\ direc' = IF iterNum = 1 /\ wrong THEN -direc ELSE direc
                   /\ IF iterNum >= 2 /\ wrong
                      THEN spc' = "final" /\ iterNum' = iterNum /\ sexc' = sexc
                      ELSE IF ~InTable(next)
                      THEN /\ spc' = "raised"
                           /\ sexc' = Some(<<"RuntimeError", MsgEdge>>)
                           /\ iterNum' = iterNum
                      ELSE spc' = "fit" /\ iterNum' = iterNum + 1 /\ sexc' = sexc
    /\ UNCHANGED <<sarg, sresult>>
    /\ UNCHANGED cvars

\* starShape lines 154-157: the square of the distance of the centre from
\* the nearest pixel centre, in quarters
OffSq4(c2) ==
    LET off2(x2) == Abs(2 * Round2(x2) - x2)
    IN  off2(c2[1]) * off2(c2[1]) + off2(c2[2]) * off2(c2[2])

\* starShape lines 195-197: whether corrSigSq =
\* (FWHMPerSigma * rawFWHM)**2 - 0.5 * offSq is negative, for rawFWHM =
\* f[1] / f[2] quarters and offSq = off4 quarters: that is
\*   FWHMPerSigmaSq1000 * f[1]^2 < 2000 * off4 * f[2]^2
\* (the product on the left is not formed: it can pass 2^31)
CorrSigSqNeg(f, off4) ==
    f[1] * f[1]
        <= (2000 * off4 * f[2] * f[2] - 1) \div FWHMPerSigmaSq1000

\* starShape lines 195-198: gsData.fwhm =
\* sqrt((FWHMPerSigma * rawFWHM)**2 - 0.5 * offSq) / FWHMPerSigma; its square
\* is rawFWHM**2 less 0.5 * offSq / FWHMPerSigma**2, the quotient answered
\* here (pixels squared) for offSq = off4 quarters
FWHMSqLess(off4) == <<1000 * off4, 8 * FWHMPerSigmaSq1000>>

\* _fitRadProfile lines 303-329 and starShape lines 186-204: the parabolic
\* refinement, the final fit and the off-centre correction
FitFinal ==
    /\ spc = "final"
    /\ LET b2 == chiSqByWPInd[wpInd + 1] - chiSqByWPInd[wpInd - 1]
           a2 == chiSqByWPInd[wpInd + 1] - 2 * chiSqByWPInd[wpInd]
                    + chiSqByWPInd[wpInd - 1]
           wpIndMin == <<2 * a2 * wpInd - b2, 2 * a2>>
           fwhmMin4 == _fwhmFromWPInd4(wpIndMin)
           off4 == OffSq4(sarg.xyCtr2)
       IN  IF a2 = 0
           THEN /\ spc' = "raised"
                /\ sexc' = Some(<<"ZeroDivisionError", MsgZeroDiv>>)
                /\ sresult' = sresult
           ELSE IF CorrSigSqNeg(fwhmMin4, off4)
           THEN /\ spc' = "raised"
                /\ sexc' = Some(<<"ValueError", MsgDomain>>)
                /\ sresult' = sresult
           ELSE /\ spc' = "done"
                /\ sexc' = sexc
                /\ sresult' = Some(StarShapeData(
                        "ampl", [rawFWHM4 |-> fwhmMin4, offSq4 |-> off4,
                                 less |-> FWHMSqLess(off4)],
                        "bkgnd", "chiSq"))
    /\ UNCHANGED <<sarg, prof, wpInd, direc, iterNum, chiSqByWPInd, evald>>
    /\ UNCHANGED cvars

NextShape == StarShape \/ FitStep \/ FitFinal

\* no call of centroid or basicCentroid is under way
CentroidIdle ==
    /\ arg = None
    /\ kern = None
    /\ pc = "idle"
    /\ rad2 = 0
    /\ imStats = None
    /\ smoothed = None
    /\ ijIndGuess = <<0, 0>>
    /\ maxi = 0
    /\ maxj = 0
    /\ niter = 0
    /\ asymmArr = Zeros
    /\ totPtsArr = Zeros
    /\ totCountsArr = Zeros
    /\ calls = <<>>
    /\ centers = <<>>
    /\ result = None
    /\ exc = None
    /\ prev = None

InitShape == ShapeInit /\ CentroidIdle

SpecShape == InitShape /\ [][NextShape]_vars

\* ------------------------------------------------------------------------
\* Properties
\* ------------------------------------------------------------------------
Returned == result # None

Res == result[1]

Failed == Returned /\ ~Res.isOK

FromGate == arg.entry = "centroid"

DistSq(p, g) == (p[1] - g[1]) * (p[1] - g[1]) + (p[2] - g[2]) * (p[2] - g[2])

\* C1: a call with a guess of 2 elements never raises: every failure ends
\* in a CentroidData with isOK false
C1_NeverRaises == arg.guessLen = 2 => pc # "raised"

\* C2 as stated: starShape never raises for a failure of the fit
C2_NeverRaises == spc # "raised"

\* C2, amended: a failure of the fit leaves starShape as a RuntimeError with
\* a message and without a result: the walk never evaluates an index off
\* the table, a vanishing determinant at an evaluated index raises, and
\* starShape returns a StarShapeData only when nothing was raised
C2_FailuresRaise ==
    /\ spc = "raised" =>
          /\ sresult = None
          /\ sexc # None
          /\ sexc[1][1] = "RuntimeError"
          /\ sexc[1][2] # ""
    /\ spc = "done" => sexc = None /\ sresult # None
    /\ \A n \in 1 .. Len(evald) :
          /\ 0 <= evald[n] /\ evald[n] <= ncell - 1
          /\ prof.errAt = Some(evald[n]) => spc = "raised" /\ n = Len(evald)
    /\ spc = "fit" => 0 <= wpInd /\ wpInd <= ncell - 1

\* the width walk has left the table and starShape has raised
C2_Witness ==
    /\ spc = "raised"
    /\ sexc = Some(<<"RuntimeError", MsgEdge>>)
    /\ Len(evald) > 2

\* C3: the radius of every CentroidData returned is an integer >= 3
C3_RadiusFloor ==
    Returned => Res.rad2 % 2 = 0 /\ Res.rad2 >= 2 * _MinRad

\* C4: every pixel a grid was evaluated around is strictly inside the
\* radius; once the best pixel is at or beyond it the search has failed and
\* no grid was evaluated there; a success has its best pixel inside
C4_WalkInsideRadius ==
    pc \in {"walk", "refine", "done"} /\ (FromGate => ~Returned \/ centers # <<>>) =>
        /\ \A c \in SeqRange(centers) :
              DistSq(c, ijIndGuess) < (rad2 \div 2) * (rad2 \div 2)
        /\ DistSq(<<maxi, maxj>>, ijIndGuess) >= (rad2 \div 2) * (rad2 \div 2) =>
              /\ Failed
              /\ Res.msgStr = MsgWalked
              /\ <<maxi, maxj>> \notin SeqRange(centers)
        /\ Returned /\ Res.isOK =>
              DistSq(<<maxi, maxj>>, ijIndGuess) < (rad2 \div 2) * (rad2 \div 2)

\* the walk has shifted at least twice and then left the radius
C4_Witness ==
    /\ Failed
    /\ Res.msgStr = MsgWalked
    /\ Len(centers) >= 3
    /\ DistSq(<<maxi, maxj>>, ijIndGuess) >= (rad2 \div 2) * (rad2 \div 2)

\* C5: the walk evaluates at most 40 grids and a walk that has not
\* converged in 40 iterations has failed; every iteration counts up niter
\* and leads to another iteration, to the refinement or to a CentroidData,
\* the refinement leads to a CentroidData, and neither ever is stuck: so
\* every walk ends, converged and refined or failed, in at most 41 steps
C5_WalkTerminates ==
    /\ [](/\ Len(centers) <= _MaxIter
          /\ niter <= _MaxIter + 1
          /\ niter > _MaxIter => pc = "done" /\ Failed /\ Res.msgStr = MsgIter
          /\ pc \in {"walk", "refine"} => ENABLED (WalkIter \/ Refine))
    /\ [][pc = "walk" =>
            /\ niter' = niter + 1
            /\ pc' \in {"walk", "refine", "done"}
            /\ pc' = "done" => result' # None /\ ~result'[1].isOK]_vars
    /\ [][pc = "refine" => pc' = "done" /\ result' # None]_vars

\* 40 grids were evaluated without converging and the search has failed
C5_Witness ==
    /\ Failed
    /\ Res.msgStr = MsgIter
    /\ Len(centers) = _MaxIter

\* the pixels of the smoothed data at or above the cut level
AtOrAboveCut == {p \in DOMAIN smoothed[1] : 2 * smoothed[1][p] >= imStats[1].dataCut2}

\* the gate has been decided and did not answer "No signal"
SignalDeclared ==
    /\ FromGate
    /\ smoothed # None
    /\ ~(Returned /\ Res.msgStr = "No signal")

TwoByTwo(obj) ==
    /\ \E p \in obj, q \in obj : p[1] # q[1]
    /\ \E p \in obj, q \in obj : p[2] # q[2]

\* C6: signal is declared if and only if a maximal 8-connected component of
\* the pixels at or above the cut level extends over >= 2 pixels on both axes
C6_SignalIffBlob ==
    FromGate /\ smoothed # None =>
        (SignalDeclared <=>
            \E p \in AtOrAboveCut : TwoByTwo(Grow({p}, AtOrAboveCut)))

FlatImage == \A p \in Pix, q \in Pix : arg.data[p] = arg.data[q]

\* C7: for a flat image the gated centroid returns isOK false, "No signal"
C7_FlatNoSignal ==
    FromGate /\ FlatImage /\ pc # "centroid" =>
        Failed /\ Res.msgStr = "No signal"

\* the pixels of the smoothed data above the cut level
StrictlyAboveCut == {p \in DOMAIN smoothed[1] : 2 * smoothed[1][p] > imStats[1].dataCut2}

\* C8: "No signal" is returned without a call of the kernel; in the gated
\* centroid the kernel is called only after the gate found a component
\* over the cut extending over both axes; the result of the search
\* carries the ImStats of the gate
C8_GateBeforeSearch ==
    FromGate =>
        /\ Returned /\ Res.msgStr = "No signal" =>
              calls = <<>> /\ centers = <<>>
        /\ (calls # <<>> \/ pc \in {"basic", "walk", "refine"}) =>
              /\ smoothed # None /\ imStats # None
              /\ \E p \in StrictlyAboveCut : TwoByTwo(Grow({p}, StrictlyAboveCut))
        /\ Returned => imStats # None /\ Res.imStats = imStats

\* the gate found signal, the kernel was called and the search succeeded
C8_Witness ==
    /\ FromGate
    /\ Returned /\ Res.isOK
    /\ calls # <<>>
    /\ Res.imStats = imStats /\ imStats # None

\* C9: a CentroidData with isOK false has a non-empty message
C9_FailedHasMessage == Failed => Res.msgStr # ""

\* the search failed on a negative radicand
C9_Witness == Failed /\ Res.msgStr = MsgDomain

\* C10: with isOK false no measurement is present; with isOK true centre,
\* uncertainty, asymmetry, pixel count and counts are all present
C10_FieldsFollowFlag ==
    Returned =>
        /\ ~Res.isOK =>
              /\ Res.xyCtr = None /\ Res.xyErr = None /\ Res.asymm = None
              /\ Res.pix = None /\ Res.counts = None /\ Res.nSat = None
        /\ Res.isOK =>
              /\ Res.xyCtr # None /\ Res.xyErr # None /\ Res.asymm # None
              /\ Res.pix # None /\ Res.counts # None

\* a success that counted saturated pixels
C10_Witness == Returned /\ Res.isOK /\ Res.nSat # None /\ Res.nSat[1] > 0

\* the second call of basicCentroid has left its walk
SecondWalkOver == prev # None /\ pc \in {"refine", "done"}

\* C11: a second call of basicCentroid, with the centre the first returned
\* as its guess, starts on the best pixel of the first and converges in
\* exactly one iteration of the walk
C11_SecondCallOneIteration ==
    /\ prev # None => ijIndGuess = prev[1].best
    /\ SecondWalkOver =>
          /\ niter = 1
          /\ centers = <<prev[1].best>>
          /\ pc = "done" => Res.isOK

\* C12: the table of widths runs over FWHM 30.0 down to 1.0 in steps of
\* 0.25: entry k has FWHM 30.0 - 0.25 * k, FWHM strictly decreases with the
\* index, the index of the FWHM of entry k is k, every index the walk
\* evaluates is one of the table, and both 30.0 and 1.0 are entries
C12_TableSpansRange ==
    /\ \A k \in DOMAIN _makeWPArr :
          /\ _makeWPArr[k] = InvFWHMDelta * _FWHMMax - k
          /\ _wpIndFromFWHM(_makeWPArr[k]) = k
          /\ k > 0 => _makeWPArr[k] < _makeWPArr[k - 1]
    /\ \A n \in 1 .. Len(evald) : evald[n] \in DOMAIN _makeWPArr
    /\ \E k \in DOMAIN _makeWPArr : _makeWPArr[k] = InvFWHMDelta * _FWHMMax
    /\ \E k \in DOMAIN _makeWPArr : _makeWPArr[k] = InvFWHMDelta * _FWHMMin

\* C13: the FWHM starShape reports is the raw FWHM corrected by
\* sigma^2 - d^2/2 with sigma = FWHM / FWHMPerSigma: the square of the
\* reported FWHM is the square of the raw FWHM less FWHMPerSigma^2 * d^2 / 2;
\* for d = 0 it is the raw FWHM; no FWHM is reported when the corrected
\* sigma^2 is negative
C13_OffCentreCorrection ==
    spc = "done" =>
        LET fwhm == sresult[1].fwhm
        IN  /\ 8000 * fwhm.less[1] =
                   FWHMPerSigmaSq1000 * fwhm.offSq4 * fwhm.less[2]
            /\ fwhm.offSq4 = 0 => fwhm.less[1] = 0
            /\ ~CorrSigSqNeg(fwhm.rawFWHM4, fwhm.offSq4)

\* C14: the width walk ends within ncell evaluations: it never evaluates an
\* index twice, every step in the walk evaluates one more index and the
\* walk is never stuck; where chi-square can be computed at every index
\* it ends at a located minimum or by raising because the next index is
\* off the table
C14_WidthWalkTerminates ==
    /\ [](/\ Len(evald) <= ncell
          /\ Cardinality(SeqRange(evald)) = Len(evald)
          /\ spc = "fit" => ENABLED FitStep
          /\ spc = "raised" /\ prof.errAt = None =>
                /\ sexc = Some(<<"RuntimeError", MsgEdge>>)
                /\ ~InTable(wpInd)
          /\ spc \in {"final", "done"} =>
                /\ wpInd \in SeqRange(evald)
                /\ Len(evald) >= 3)
    /\ [][spc = "fit" =>
            /\ Len(evald') = Len(evald) + 1
            /\ spc' \in {"fit", "final", "raised"}]_vars

\* a walk has turned round, run down to the far end of the table and left it
C14_Witness ==
    /\ spc = "raised"
    /\ sexc = Some(<<"RuntimeError", MsgEdge>>)
    /\ direc = -1
    /\ Len(evald) > ncell \div 2

\* C15: when the width walk has backed up to its located index, that
\* index is 1 .. ncell - 2, chi-square was evaluated in this walk there and
\* at both neighbours, it is no larger than at either neighbour and
\* smaller than at one, so the curvature of the parabola is positive and
\* the refined index is within half a step of the located one
C15_LocatedMinimum ==
    spc \in {"final", "done"} =>
        LET chi == chiSqByWPInd
            b2 == chi[wpInd + 1] - chi[wpInd - 1]
            a2 == chi[wpInd + 1] - 2 * chi[wpInd] + chi[wpInd - 1]
        IN  /\ 1 <= wpInd /\ wpInd <= ncell - 2
            /\ {wpInd - 1, wpInd, wpInd + 1} \subseteq SeqRange(evald)
            /\ \A k \in {wpInd - 1, wpInd, wpInd + 1} :
                  chi[k] = _fitIter(prof, k).chiSq
            /\ chi[wpInd] <= chi[wpInd - 1] /\ chi[wpInd] <= chi[wpInd + 1]
            /\ chi[wpInd] < chi[wpInd - 1] \/ chi[wpInd] < chi[wpInd + 1]
            /\ a2 > 0
            /\ Abs(b2) <= a2

\* the walk turned round and backed up to an index whose chi-square
\* equals that of one neighbour: the refined index is half a step away
C15_Witness ==
    /\ spc = "final"
    /\ direc = -1
    /\ prof.kind = "any"
    /\ chiSqByWPInd[wpInd] = chiSqByWPInd[wpInd + 1]
    /\ Len(evald) > 3

\* ------------------------------------------------------------------------
\* The cached grid (C16)
\* ------------------------------------------------------------------------
\* the 3x3 grid about (mi, mj) with every cell asked of the kernel
FullGrid(mi, mj) == [c \in Grid |-> KernelAt(c, mi, mj)]

\* the walk of lines 448-496 with no cell kept from one iteration to the
\* next: the pixels centred on and how the walk ends
RECURSIVE ScratchWalk(_, _, _, _)
ScratchWalk(mi, mj, n, cs) ==
    IF TooManyIter(n) THEN [centers |-> cs, end |-> "iter", best |-> <<mi, mj>>]
    ELSE LET full == FullGrid(mi, mj)
             here == Append(cs, <<mi, mj>>)
             mp == MinimumPosition([c \in Grid |-> full[c].asymm])
             ni == mi + mp[1] - 1
             nj == mj + mp[2] - 1
         IN  IF \E c \in Grid : full[c].err
             THEN [centers |-> here, end |-> "kernel", best |-> <<mi, mj>>]
             ELSE IF mp = <<1, 1>>
             THEN [centers |-> here, end |-> "found", best |-> <<mi, mj>>]
             ELSE IF WalkedOff(ni, nj, ijIndGuess, rad2 \div 2)
             THEN [centers |-> here, end |-> "walked", best |-> <<ni, nj>>]
             ELSE ScratchWalk(ni, nj, n + 1, here)

\* how the walk of the model ended
WalkEnd ==
    IF pc = "refine" \/ Res.isOK \/ Res.msgStr \in {MsgZeroDiv, MsgDomain}
    THEN "found"
    ELSE IF Res.msgStr = MsgIter THEN "iter"
    ELSE IF Res.msgStr = MsgKernel THEN "kernel"
    ELSE "walked"

\* a cell of the grid holds what the kernel answers for its pixel
HoldsKernel(c) ==
    LET k == KernelAt(c, maxi, maxj)
    IN  /\ asymmArr[c] = k.asymm
        /\ totCountsArr[c] = k.counts
        /\ totPtsArr[c] = k.pts

IsPrefix(p, q) == Len(p) <= Len(q) /\ \A n \in 1 .. Len(p) : p[n] = q[n]

\* C16: the walk over the cached grid is the walk that asks the kernel for
\* all nine cells at every iteration: between iterations every cell with a
\* non-zero pixel count holds the kernel's value for its pixel, a cell that
\* a shift brings in is unknown (count 0) and the next iteration asks the
\* kernel for exactly the unknown cells, and the pixels centred on and the
\* way the walk ends are those of the walk from scratch.
C16_CachedGridIsFromScratch ==
    /\ [](/\ pc \in {"walk", "refine"} =>
                \A c \in Grid : totPtsArr[c] # 0 => HoldsKernel(c)
          /\ pc = "refine" => \A c \in Grid : HoldsKernel(c)
          /\ pc = "walk" =>
                IsPrefix(centers, ScratchWalk(ijIndGuess[1], ijIndGuess[2], 1, <<>>).centers)
          /\ pc = "refine" \/ (pc = "done" /\ niter > 0) =>
                LET s == ScratchWalk(ijIndGuess[1], ijIndGuess[2], 1, <<>>)
                IN  /\ centers = s.centers
                    /\ WalkEnd = s.end
                    /\ <<maxi, maxj>> = s.best)
    /\ [][pc = "walk" /\ pc' = "walk" =>
            /\ \A c \in Grid :
                  totPtsArr'[c] = 0 <=>
                      <<c[1] + maxi' - maxi, c[2] + maxj' - maxj>> \notin Grid
            /\ centers' = Append(centers, <<maxi, maxj>>)]_vars
    /\ [][pc = "walk" /\ ~TooManyIter(niter + 1) =>
            \E n \in 1 .. 9 :
               /\ Len(calls') = Len(calls) + n
               /\ n <= Cardinality({c \in Grid : totPtsArr[c] = 0})
               /\ n < Cardinality({c \in Grid : totPtsArr[c] = 0}) =>
                     pc' = "done" /\ result'[1].msgStr = MsgKernel
               /\ \A m \in 1 .. n :
                     totPtsArr[<<calls'[Len(calls) + m][1] - maxi + 1,
                                 calls'[Len(calls) + m][2] - maxj + 1>>] = 0]_vars

\* a walk of three shifts or more that kept cells and found the star
C16_Witness ==
    /\ pc = "done" /\ result # None /\ Res.isOK
    /\ Len(centers) >= 4
    /\ Len(calls) < 9 * Len(centers)

\* ------------------------------------------------------------------------
\* The parabolic fit at the minimum (C17)
\* ------------------------------------------------------------------------
\* the quotient q = <<num, den>> is within half a unit of the integer m
WithinHalf(q, m) == 2 * Abs(q[1] - m * q[2]) <= Abs(q[2])

\* C17: when the walk has converged the centre cell is the minimum of the
\* grid, so along each axis the curvature y0 - 2*y1 + y2 is >= 0 and, when
\* it is > 0, the offset -b/(2a) is at most half a pixel; a successful
\* result has its centre within half a pixel, on each axis, of the best
\* pixel (maxi, maxj) and reports the asymmetry, pixel count and counts the
\* kernel gives for that pixel.
C17_FitWithinHalfPixel ==
    /\ pc = "refine" =>
          /\ \A c \in Grid : asymmArr[<<1, 1>>] <= asymmArr[c]
          /\ \A ax \in {<<<<0, 1>>, <<2, 1>>>>, <<<<1, 0>>, <<1, 2>>>>} :
                LET y0 == asymmArr[ax[1]]
                    y1 == asymmArr[<<1, 1>>]
                    y2 == asymmArr[ax[2]]
                IN  /\ y0 - 2 * y1 + y2 >= 0
                    /\ y0 - 2 * y1 + y2 > 0 => Abs(y2 - y0) <= y0 - 2 * y1 + y2
    /\ pc = "done" /\ result # None /\ Res.isOK =>
          LET ij == ijPosFromXYPos(Res.xyCtr[1])
              k == KernelAt(<<1, 1>>, maxi, maxj)
          IN  /\ ij[1][2] # 0 /\ ij[2][2] # 0
              /\ WithinHalf(ij[1], maxi)
              /\ WithinHalf(ij[2], maxj)
              /\ Res.asymm = Some(k.asymm)
              /\ Res.pix = Some(k.pts)
              /\ Res.counts = Some(k.counts)

\* a star found after a shift, half a pixel off the best pixel along i and
\* off it by less along j
C17_Witness ==
    /\ pc = "done" /\ result # None /\ Res.isOK
    /\ Len(centers) >= 2
    /\ LET ij == ijPosFromXYPos(Res.xyCtr[1])
       IN  /\ 2 * Abs(ij[1][1] - maxi * ij[1][2]) = Abs(ij[1][2])
           /\ ij[2][1] # maxj * ij[2][2]
           /\ 2 * Abs(ij[2][1] - maxj * ij[2][2]) < Abs(ij[2][2])

\* ------------------------------------------------------------------------
\* The walk does not come back (C18)
\* ------------------------------------------------------------------------
\* the asymmetry the kernel gives for the pixel p
AsymmAt(p) ==
    radAsymmWeighted(kern, p[1] - KernOrigin[1], p[2] - KernOrigin[2]).asymm

\* C18: within one call the walk centres on no pixel twice, and from one
\* iteration to the next the asymmetry of the centre cell does not go up: a
\* step is made to a pixel of lower asymmetry, or of equal asymmetry and
\* earlier in row-major order, so two pixels of equal asymmetry are not
\* walked back and forth.
C18_WalkNeverReturns ==
    /\ [](/\ Cardinality(SeqRange(centers)) = Len(centers)
          /\ pc = "walk" => <<maxi, maxj>> \notin SeqRange(centers)
          /\ \A n \in 1 .. Len(centers) - 1 :
                AsymmAt(centers[n + 1]) <= AsymmAt(centers[n]))
    /\ [][pc = "walk" /\ pc' \in {"walk", "refine"} =>
            /\ AsymmAt(<<maxi', maxj'>>) <= AsymmAt(<<maxi, maxj>>)
            /\ asymmArr'[<<1, 1>>] = AsymmAt(<<maxi', maxj'>>)
            /\ niter > 0 => asymmArr'[<<1, 1>>] <= asymmArr[<<1, 1>>]
            /\ pc' = "walk" /\ AsymmAt(<<maxi', maxj'>>) = AsymmAt(<<maxi, maxj>>) =>
                  \/ maxi' < maxi
                  \/ maxi' = maxi /\ maxj' < maxj]_vars

\* a walk that stepped between two pixels of equal asymmetry and went on
C18_Witness ==
    /\ Len(centers) >= 3
    /\ \E n \in 1 .. Len(centers) - 2 :
          AsymmAt(centers[n]) = AsymmAt(centers[n + 1])

====
